---------------------------- MODULE Spec2Model ----------------------------
(***************************************************************************)
(* Model of lib/huskoll/Huskoll.py: one Device handle driven by one        *)
(* sequential caller, and the Huskoll server that answers its two POST     *)
(* requests.                                                               *)
(*                                                                         *)
(* Python values are records tagged by their type in field t.  A str is a  *)
(* sequence of one-character strings, so that str(), float() and lower()   *)
(* are computed character by character.  A float holds its value in tenths *)
(* (field d); the model only produces floats with one decimal digit.       *)
(***************************************************************************)
EXTENDS Integers, Sequences, FiniteSets, TLC

VARIABLES hardware_id, token, status, status_json, hardware_generation,
          stack, ret, requests, warned, call, upd

vars == <<hardware_id, token, status, status_json, hardware_generation,
          stack, ret, requests, warned, call, upd>>

device == <<hardware_id, token, status, status_json, hardware_generation>>

---------------------------------------------------------------------------
(* Bounds of the model. *)

\* largest step, in degrees, a caller passes as `by`
MaxBy == 3

\* the set-point, in degrees, the caller passes to update_status
CallerTemp == 22

\* the lower of the two set-points, in degrees, the server reports
ServerTemp == 20

\* the documented range of the set-point
MinSetPoint == 8
MaxSetPoint == 32

---------------------------------------------------------------------------
(* Python values. *)

None == [t |-> "None"]
StrV(s) == [t |-> "str", s |-> s]
IntV(n) == [t |-> "int", n |-> n]
FloatV(d) == [t |-> "float", d |-> d]
Absent == [t |-> "absent"]

\* an exception object: its class and the arguments of its message
Exc(cls, msg, arg) == [t |-> cls, msg |-> msg, arg |-> arg]

ResponseError(msg, arg) == Exc("ResponseError", msg, arg)

DigitChars == <<"0", "1", "2", "3", "4", "5", "6", "7", "8", "9">>

DigitOf(c) == (CHOOSE i \in 1..10 : DigitChars[i] = c) - 1

IsDigits(s) == Len(s) > 0 /\ \A i \in 1..Len(s) : \E j \in 1..10 : DigitChars[j] = s[i]

RECURSIVE NatToChars(_)
NatToChars(n) ==
    IF n < 10 THEN <<DigitChars[n + 1]>>
    ELSE NatToChars(n \div 10) \o <<DigitChars[(n % 10) + 1]>>

RECURSIVE CharsToNat(_)
CharsToNat(s) ==
    IF Len(s) = 0 THEN 0
    ELSE 10 * CharsToNat(SubSeq(s, 1, Len(s) - 1)) + DigitOf(s[Len(s)])

Abs(n) == IF n < 0 THEN -n ELSE n

\* str(x)
PyStr(x) ==
    CASE x.t = "str" -> x
      [] x.t = "int" ->
            StrV((IF x.n < 0 THEN <<"-">> ELSE <<>>) \o NatToChars(Abs(x.n)))
      [] x.t = "float" ->
            StrV((IF x.d < 0 THEN <<"-">> ELSE <<>>) \o NatToChars(Abs(x.d) \div 10)
                \o <<".">> \o <<DigitChars[(Abs(x.d) % 10) + 1]>>)
      [] OTHER -> StrV(<<"N", "o", "n", "e">>)

\* position of the first "." of s, or 0
DotAt(s) ==
    IF \E i \in 1..Len(s) : s[i] = "."
    THEN CHOOSE i \in 1..Len(s) : s[i] = "." /\ \A j \in 1..(i - 1) : s[j] # "."
    ELSE 0

\* float(s) for a str: [-]digits[.[digit]], anything else is a ValueError
ParseFloat(s) ==
    LET neg == Len(s) > 0 /\ s[1] = "-"
        u == IF neg THEN SubSeq(s, 2, Len(s)) ELSE s
        k == DotAt(u)
        whole == IF k = 0 THEN u ELSE SubSeq(u, 1, k - 1)
        frac == IF k = 0 THEN <<>> ELSE SubSeq(u, k + 1, Len(u))
    IN  IF IsDigits(whole) /\ (frac = <<>> \/ (Len(frac) = 1 /\ IsDigits(frac)))
        THEN LET m == 10 * CharsToNat(whole) + CharsToNat(frac)
             IN  FloatV(IF neg THEN -m ELSE m)
        ELSE Exc("ValueError", "could not convert string to float", StrV(s))

\* float(x)
PyFloat(x) ==
    CASE x.t = "float" -> x
      [] x.t = "int" -> FloatV(10 * x.n)
      [] x.t = "str" -> ParseFloat(x.s)
      [] OTHER -> Exc("TypeError", "float() argument must be a string or a number", x)

UpperLetters == <<"A", "B", "C", "D", "E", "F", "G", "H", "I", "J", "K", "L", "M",
                  "N", "O", "P", "Q", "R", "S", "T", "U", "V", "W", "X", "Y", "Z">>

LowerLetters == <<"a", "b", "c", "d", "e", "f", "g", "h", "i", "j", "k", "l", "m",
                  "n", "o", "p", "q", "r", "s", "t", "u", "v", "w", "x", "y", "z">>

LowerChar(c) ==
    IF \E i \in 1..26 : UpperLetters[i] = c
    THEN LowerLetters[CHOOSE i \in 1..26 : UpperLetters[i] = c]
    ELSE c

\* s.lower() without the conversion
LowerSkipped(s) == s

\* s.lower()
Lower(s) == [i \in 1..Len(s) |-> LowerChar(s[i])]

IsExc(v) == v.t \in {"ValueError", "TypeError", "KeyError", "AttributeError",
                     "ResponseError", "JSONDecodeError", "ParserError"}

---------------------------------------------------------------------------
(* The names the Device class gives to the parameter values. *)

FAN_AUTO == StrV(<<"a", "u", "t", "o">>)
FAN_LOW == StrV(<<"l", "o", "w">>)
FAN_MEDIUM == StrV(<<"m", "e", "d", "i", "u", "m">>)
FAN_HIGH == StrV(<<"h", "i", "g", "h">>)
COOL == StrV(<<"c", "o", "o", "l">>)
HEAT == StrV(<<"h", "e", "a", "t">>)
POWER_OFF == StrV(<<"o", "f", "f">>)
POWER_ON == StrV(<<"o", "n">>)

SET_PARAMETERS_URL == "https://huskoll.se/API/openAPI.php/huskoll/set/"
GET_PARAMETERS_URL == "https://huskoll.se/API/openAPI.php/huskoll/get/"

---------------------------------------------------------------------------
(* What the server can answer.  An HTTP response r has the flag decodes    *)
(* (r.json() succeeds) and the decoded object; a JSON object is a record   *)
(* over the keys the code looks at, Absent standing for a missing key.     *)

HasKey(o, k) == o[k] # Absent

GetKeys == <<"hw_generation", "status", "power", "mode", "setpoint", "fan",
             "temperature", "alarm">>

NoGetObject == [error |-> Absent, hw_generation |-> Absent, status |-> Absent,
                power |-> Absent, mode |-> Absent, setpoint |-> Absent,
                fan |-> Absent, temperature |-> Absent, alarm |-> Absent]

NoSetObject == [error |-> Absent, status |-> Absent]

Undecodable(o) == [decodes |-> FALSE, json |-> o]
Decoded(o) == [decodes |-> TRUE, json |-> o]

ErrorMessages == {StrV(<<"b", "a", "d", " ", "t", "o", "k", "e", "n">>)}

AlarmText == StrV(<<"1", "0", ":", "0", "0", "U", "T", "C", " ", "T", "<", "1", "0">>)

\* two snapshots of the device, the first with its numbers sent as strings
GetSuccessObjects ==
    { [NoGetObject EXCEPT !.hw_generation = StrV(<<"2">>),
                          !.status = StrV(<<"o", "k">>),
                          !.power = POWER_ON, !.mode = HEAT,
                          !.setpoint = PyStr(IntV(ServerTemp)), !.fan = FAN_AUTO,
                          !.temperature = StrV(<<"1", "8", ".", "5">>),
                          !.alarm = AlarmText],
      [NoGetObject EXCEPT !.hw_generation = StrV(<<"2">>),
                          !.status = StrV(<<"o", "k">>),
                          !.power = POWER_OFF, !.mode = COOL,
                          !.setpoint = IntV(ServerTemp + 1), !.fan = FAN_LOW,
                          !.temperature = FloatV(185),
                          !.alarm = AlarmText] }

GetMalformedObjects ==
    { NoGetObject,
      [NoGetObject EXCEPT !.hw_generation = StrV(<<"2">>)],
      [NoGetObject EXCEPT !.hw_generation = StrV(<<"2">>),
                          !.status = StrV(<<"o", "k">>),
                          !.power = POWER_ON, !.mode = HEAT,
                          !.setpoint = StrV(<<"-", "-">>), !.fan = FAN_AUTO,
                          !.temperature = FloatV(185), !.alarm = AlarmText] }

GetResponses ==
    {Undecodable(NoGetObject)}
    \cup {Decoded([NoGetObject EXCEPT !.error = e]) : e \in ErrorMessages}
    \cup {Decoded(o) : o \in GetMalformedObjects}
    \cup {Decoded(o) : o \in GetSuccessObjects}

SetStatusValues ==
    { StrV(<<"a", "c", "k">>), StrV(<<"A", "C", "K">>),
      StrV(<<"n", "a", "k">>), StrV(<<"N", "A", "K">>),
      StrV(<<"m", "a", "y", "b", "e">>) }

SetResponses ==
    {Undecodable(NoSetObject), Decoded(NoSetObject)}
    \cup {Decoded([NoSetObject EXCEPT !.status = s]) : s \in SetStatusValues}

---------------------------------------------------------------------------
(* What the caller can pass. *)

Bys == {IntV(MaxBy), IntV(-MaxBy)}
SetTemps == {IntV(MinSetPoint - 1), IntV(MinSetPoint), IntV(MaxSetPoint), IntV(MaxSetPoint + 1)}
UpdatePowers == {None, POWER_OFF}
UpdateModes == {None, COOL}
UpdateFans == {None, FAN_HIGH}
UpdateTemps == {None, IntV(CallerTemp)}

---------------------------------------------------------------------------
(* The Status class and the body of get_status. *)

\* Status.__init__; an exception value when a float() in it fails
StatusInit(st, power, mode, current_set_point, fan_speed, current_env_temperature, last_alarm, hw) ==
    LET sp == PyFloat(current_set_point)
        te == PyFloat(current_env_temperature)
    IN  IF IsExc(sp) THEN sp
        ELSE IF IsExc(te) THEN te
        ELSE [t |-> "Status", status |-> st, power |-> power, mode |-> mode,
              current_set_point |-> sp, fan_speed |-> fan_speed,
              current_env_temperature |-> te, last_alarm |-> last_alarm,
              hardware_generation |-> hw]

\* s.split("UTC")[0]: the text before the first "UTC" of s, all of s without one
SplitUTC(s) ==
    LET At(i) == i + 2 <= Len(s) /\ s[i] = "U" /\ s[i + 1] = "T" /\ s[i + 2] = "C"
    IN  IF \E i \in 1..Len(s) : At(i)
        THEN LET k == CHOOSE i \in 1..Len(s) : At(i) /\ \A j \in 1..(i - 1) : ~At(j)
             IN  SubSeq(s, 1, k - 1)
        ELSE s

\* dateutil.parser.parse: a datetime of the text, which must not be empty
ParseDate(s) ==
    IF s = <<>> THEN Exc("ParserError", "String does not contain a date", StrV(s))
    ELSE [t |-> "datetime", text |-> s]

\* the first key of GetKeys the object lacks from position i on, or 0
RECURSIVE FirstMissing(_, _)
FirstMissing(o, i) ==
    IF i > Len(GetKeys) THEN 0
    ELSE IF ~HasKey(o, GetKeys[i]) THEN i
    ELSE FirstMissing(o, i + 1)

Returned(v) == [kind |-> "return", val |-> v]
Raised(e) == [kind |-> "raise", val |-> e]
Running == [kind |-> "running", val |-> None]

\* the `error` branch of get_status, lines 57-59
GetStatusError(error_message) ==
    Returned(ResponseError("Huskoll server returned the following error: ", error_message))

\* get_status from the response on, lines 51-75, on a handle with cached
\* status st and hardware generation hw: the two fields afterwards, the
\* outcome and whether the decode warning was emitted
GetStatusBody(r, st, hw) ==
    LET o == r.json
        same(out, w) == [status |-> st, hardware_generation |-> hw, out |-> out, warn |-> w]
    IN  IF ~r.decodes
        THEN same(Raised(Exc("JSONDecodeError", "Expecting value", None)), TRUE)
        ELSE IF HasKey(o, "error") THEN same(GetStatusError(o.error), FALSE)
        ELSE IF ~HasKey(o, "hw_generation")
        THEN same(Raised(Exc("KeyError", "hw_generation", None)), FALSE)
        ELSE
            LET gen == o.hw_generation
                k == FirstMissing(o, 2)
                failed(e) == [status |-> st, hardware_generation |-> gen,
                              out |-> Raised(e), warn |-> FALSE]
                sp == IF HasKey(o, "setpoint") THEN PyFloat(o.setpoint) ELSE None
                te == IF HasKey(o, "temperature") THEN PyFloat(o.temperature) ELSE None
                al == IF HasKey(o, "alarm") /\ o.alarm.t = "str"
                      THEN ParseDate(SplitUTC(o.alarm.s))
                      ELSE Exc("AttributeError", "split", None)
            IN  CASE k # 0 /\ k <= 5 -> failed(Exc("KeyError", GetKeys[k], None))
                  [] IsExc(sp) -> failed(sp)
                  [] k = 6 -> failed(Exc("KeyError", GetKeys[k], None))
                  [] k = 7 -> failed(Exc("KeyError", GetKeys[k], None))
                  [] IsExc(te) -> failed(te)
                  [] k = 8 -> failed(Exc("KeyError", GetKeys[k], None))
                  [] IsExc(al) -> failed(al)
                  [] OTHER ->
                        LET new == StatusInit(o.status, o.power, o.mode, sp, o.fan,
                                              te, al, gen)
                        IN  IF IsExc(new) THEN failed(new)
                            ELSE [status |-> new, hardware_generation |-> gen,
                                  out |-> Returned(new), warn |-> FALSE]

---------------------------------------------------------------------------
(* The bodies of update_status. *)

\* line 82: `None in [...]` with only the first parameter looked at
NeedsFetchFirstOnly(p, m, f, te) == p = None

\* line 82: is any of the four parameters None
NeedsFetch(p, m, f, te) == None \in {p, m, f, te}

\* lines 85-88 with the fan speed taken for the mode
FillSwapped(p, m, f, te, device_status) ==
    [power |-> IF p = None THEN device_status.power ELSE p,
     mode |-> IF m = None THEN device_status.fan_speed ELSE m,
     fan |-> IF f = None THEN device_status.fan_speed ELSE f,
     temp |-> IF te = None THEN device_status.current_set_point ELSE te]

\* lines 85-88: every parameter that is None is taken from the status fetched
Fill(p, m, f, te, device_status) ==
    [power |-> IF p = None THEN device_status.power ELSE p,
     mode |-> IF m = None THEN device_status.mode ELSE m,
     fan |-> IF f = None THEN device_status.fan_speed ELSE f,
     temp |-> IF te = None THEN device_status.current_set_point ELSE te]

\* lines 91-96: the body of the update request
RequestData(p, m, f, te) ==
    [token |-> token, hwid |-> hardware_id, power |-> p, mode |-> m, fan |-> f,
     setpoint |-> PyStr(te)]

\* lines 93-96 leaving the cached set-point alone
OverwriteWithoutSetPoint(st, data) ==
    [st EXCEPT !.power = data.power, !.mode = data.mode, !.fan_speed = data.fan]

\* lines 93-96: the cached status takes the values of the request body
Overwrite(st, data) ==
    [st EXCEPT !.power = data.power, !.mode = data.mode, !.fan_speed = data.fan,
               !.current_set_point = data.setpoint]

\* lines 99-114: the outcome of update_status for the response r, and whether
\* the decode warning was emitted
UpdateStatusBody(r) ==
    LET o == r.json
    IN  IF ~r.decodes
        THEN [out |-> Raised(Exc("JSONDecodeError", "Expecting value", None)), warn |-> TRUE]
        ELSE IF HasKey(o, "status")
        THEN LET st == Lower(o.status.s)
             IN  IF st = <<"n", "a", "k">>
                 THEN [out |-> Raised(ResponseError(
                                  "Server responded with nak (set data not acknowledged).",
                                  None)),
                       warn |-> FALSE]
                 ELSE IF st # <<"a", "c", "k">>
                 THEN [out |-> Raised(ResponseError(
                                  "Server responded with an unknown response: ", StrV(st))),
                       warn |-> FALSE]
                 ELSE [out |-> Returned(None), warn |-> FALSE]
        ELSE [out |-> Raised(ResponseError("status key not present in body! ", o)),
              warn |-> FALSE]

---------------------------------------------------------------------------
(* The call stack.  A frame holds the function, the line it is at and its  *)
(* locals; the top of the stack is its last element.                       *)

Top(stk) == stk[Len(stk)]
Pop(stk) == SubSeq(stk, 1, Len(stk) - 1)
SetTop(stk, f) == [stk EXCEPT ![Len(stk)] = f]

GetFrame == [fn |-> "get_status", pc |-> "L50"]

UpdateFrame(p, m, f, te) ==
    [fn |-> "update_status", pc |-> "L82", new_power_status |-> p, new_mode |-> m,
     new_fan_speed |-> f, new_temperature |-> te, device_status |-> None]

ChangeFrame(by, force) ==
    [fn |-> "change_temperature", pc |-> "L174", by |-> by,
     force_status_update |-> force]

\* a shortcut function, which is at its only line: the call of another function
CallerFrame(fn) == [fn |-> fn, pc |-> "call"]

\* the function on top of stk returns v: the stack and the outcome afterwards.
\* get_status returns into line 83 or line 175; every other call is the last
\* statement of its caller, which then returns None in turn.
RECURSIVE Return(_, _)
Return(stk, v) ==
    LET rest == Pop(stk)
    IN  IF rest = <<>> THEN [stack |-> <<>>, ret |-> Returned(v)]
        ELSE LET f == Top(rest)
             IN  CASE f.fn = "update_status" /\ f.pc = "L83" ->
                        [stack |-> SetTop(rest, [f EXCEPT !.device_status = v, !.pc = "L85"]),
                         ret |-> Running]
                   [] f.fn = "change_temperature" /\ f.pc = "L175" ->
                        [stack |-> SetTop(rest, [f EXCEPT !.pc = "L176"]), ret |-> Running]
                   [] OTHER -> Return(rest, None)

\* an outcome of the function on top of stk: no function of the library
\* catches an exception, so a raise ends the caller's call
Finish(stk, out) ==
    IF out.kind = "raise" THEN [stack |-> <<>>, ret |-> out]
    ELSE Return(stk, out.val)

At(fn, pc) == stack # <<>> /\ Top(stack).fn = fn /\ Top(stack).pc = pc

---------------------------------------------------------------------------
(* History of the caller's call in progress or last finished: what was     *)
(* called with which arguments on which cache (call), and what its         *)
(* update_status did (upd).                                                *)

NoUpdate == [called |-> FALSE, given |-> None, base |-> 0, fetched |-> Absent,
             data |-> None, resp |-> Absent]

Begin(fn, by, force, value, suppress) ==
    /\ stack = <<>>
    /\ call' = [fn |-> fn, by |-> by, force |-> force, value |-> value,
                suppress |-> suppress, status0 |-> status,
                hardware_generation0 |-> hardware_generation, got |-> Absent]
    /\ upd' = NoUpdate
    /\ requests' = <<>>
    /\ ret' = Running
    /\ UNCHANGED device

Init ==
    /\ hardware_id = "hardware_id"
    /\ token = "token"
    /\ status = None
    /\ status_json = None
    /\ hardware_generation = None
    /\ stack = <<>>
    /\ ret = Returned(None)
    /\ requests = <<>>
    /\ warned = {}
    /\ call = [fn |-> "__init__", by |-> None, force |-> None, value |-> None,
               suppress |-> None, status0 |-> None, hardware_generation0 |-> None,
               got |-> Absent]
    /\ upd = NoUpdate

---------------------------------------------------------------------------
(* Python arithmetic on numbers, in tenths. *)

Tenths(x) == IF x.t = "int" THEN 10 * x.n ELSE x.d

IsNumber(x) == x.t \in {"int", "float"}

\* a + b
PyAdd(a, b) ==
    IF IsNumber(a) /\ IsNumber(b)
    THEN IF a.t = "int" /\ b.t = "int" THEN IntV(a.n + b.n)
         ELSE FloatV(Tenths(a) + Tenths(b))
    ELSE Exc("TypeError", "unsupported operand type(s) for +", <<a.t, b.t>>)

\* abs(x)
PyAbs(x) == IF x.t = "int" THEN IntV(Abs(x.n)) ELSE FloatV(Abs(x.d))

\* line 161: the condition under which set_temp warns
OutOfRange(new_temp, suppress_warning) ==
    \/ Tenths(new_temp) < 10 * MinSetPoint
    \/ (Tenths(new_temp) > 10 * MaxSetPoint /\ ~suppress_warning)

---------------------------------------------------------------------------
(* The caller calls a function of the handle. *)

get_status ==
    /\ Begin("get_status", None, None, None, None)
    /\ stack' = <<GetFrame>>
    /\ warned' = {}

update_status ==
    \E p \in UpdatePowers, m \in UpdateModes, f \in UpdateFans, te \in UpdateTemps :
        /\ Begin("update_status", None, None, None, None)
        /\ stack' = <<UpdateFrame(p, m, f, te)>>
        /\ warned' = {}

\* a function whose body is update_status with one parameter
Shortcut(fn, p, m, f) ==
    /\ Begin(fn, None, None, None, None)
    /\ stack' = <<CallerFrame(fn), UpdateFrame(p, m, f, None)>>
    /\ warned' = {}

power_off == Shortcut("power_off", POWER_OFF, None, None)
power_on == Shortcut("power_on", POWER_ON, None, None)
set_cooling == Shortcut("set_cooling", None, COOL, None)
set_heating == Shortcut("set_heating", None, HEAT, None)
fan_speed_auto == Shortcut("fan_speed_auto", None, None, FAN_AUTO)
fan_speed_low == Shortcut("fan_speed_low", None, None, FAN_LOW)
fan_speed_medium == Shortcut("fan_speed_medium", None, None, FAN_MEDIUM)
fan_speed_high == Shortcut("fan_speed_high", None, None, FAN_HIGH)

set_temp ==
    \E new_temp \in SetTemps, suppress_warning \in BOOLEAN :
        /\ Begin("set_temp", None, None, new_temp, suppress_warning)
        /\ warned' = IF OutOfRange(new_temp, suppress_warning) THEN {"range"} ELSE {}
        /\ stack' = <<CallerFrame("set_temp"), UpdateFrame(None, None, None, new_temp)>>

change_temperature ==
    \E by \in Bys, force_status_update \in BOOLEAN :
        /\ Begin("change_temperature", by, force_status_update, None, None)
        /\ stack' = <<ChangeFrame(by, force_status_update)>>
        /\ warned' = {}

decrease_temperature ==
    \E by \in Bys, force_status_update \in BOOLEAN :
        /\ Begin("decrease_temperature", by, force_status_update, None, None)
        /\ stack' = <<CallerFrame("decrease_temperature"),
                      ChangeFrame(PyAbs(by), force_status_update)>>
        /\ warned' = {}

increase_temperature ==
    \E by \in Bys, force_status_update \in BOOLEAN :
        /\ Begin("increase_temperature", by, force_status_update, None, None)
        /\ stack' = <<CallerFrame("increase_temperature"),
                      ChangeFrame(by, force_status_update)>>
        /\ warned' = {}

---------------------------------------------------------------------------
(* The steps of get_status, update_status and change_temperature. *)

\* get_status, line 50: the request is sent
GetStatusSend ==
    /\ At("get_status", "L50")
    /\ requests' = Append(requests, [url |-> GET_PARAMETERS_URL,
                                     data |-> [token |-> token, hwid |-> hardware_id]])
    /\ stack' = SetTop(stack, [Top(stack) EXCEPT !.pc = "L51"])
    /\ UNCHANGED <<device, ret, warned, call, upd>>

\* get_status, lines 51-75: the server's response arrives
GetStatusReceive ==
    \E r \in GetResponses :
        LET b == GetStatusBody(r, status, hardware_generation)
            after == Finish(stack, b.out)
        IN  /\ At("get_status", "L51")
            /\ status' = b.status
            /\ hardware_generation' = b.hardware_generation
            /\ warned' = IF b.warn THEN warned \cup {"decode"} ELSE warned
            /\ stack' = after.stack
            /\ ret' = after.ret
            /\ call' = IF call.got = Absent THEN [call EXCEPT !.got = r] ELSE call
            /\ upd' = IF upd.called THEN [upd EXCEPT !.fetched = r] ELSE upd
            /\ UNCHANGED <<hardware_id, token, status_json, requests>>

\* update_status, lines 82-83: a parameter that is None makes it call get_status
UpdateStatusEntry ==
    LET f == Top(stack)
    IN  /\ At("update_status", "L82")
        /\ upd' = [NoUpdate EXCEPT !.called = TRUE,
                                   !.given = [power |-> f.new_power_status,
                                              mode |-> f.new_mode,
                                              fan |-> f.new_fan_speed,
                                              temp |-> f.new_temperature],
                                   !.base = Len(requests)]
        /\ stack' = IF NeedsFetch(f.new_power_status, f.new_mode, f.new_fan_speed,
                                  f.new_temperature)
                    THEN Append(SetTop(stack, [f EXCEPT !.pc = "L83"]), GetFrame)
                    ELSE SetTop(stack, [f EXCEPT !.pc = "L91"])
        /\ UNCHANGED <<device, ret, requests, warned, call>>

\* update_status, lines 85-88: the parameters that are None are filled in from
\* what get_status returned, which has the attributes only if it is a Status
UpdateStatusFill ==
    LET f == Top(stack)
        ds == f.device_status
        new == Fill(f.new_power_status, f.new_mode, f.new_fan_speed,
                    f.new_temperature, ds)
    IN  /\ At("update_status", "L85")
        /\ IF ds.t = "Status"
           THEN /\ stack' = SetTop(stack, [f EXCEPT !.new_power_status = new.power,
                                                    !.new_mode = new.mode,
                                                    !.new_fan_speed = new.fan,
                                                    !.new_temperature = new.temp,
                                                    !.pc = "L91"])
                /\ ret' = ret
           ELSE /\ stack' = <<>>
                /\ ret' = Raised(Exc("AttributeError", "object has no attribute", ds.t))
        /\ UNCHANGED <<device, requests, warned, call, upd>>

\* update_status, lines 91-98: the cached status is overwritten and the
\* request is sent; a handle without a cached status has nothing to overwrite
UpdateStatusSend ==
    LET f == Top(stack)
        data == RequestData(f.new_power_status, f.new_mode, f.new_fan_speed,
                            f.new_temperature)
    IN  /\ At("update_status", "L91")
        /\ IF status = None
           THEN /\ stack' = <<>>
                /\ ret' = Raised(Exc("AttributeError", "object has no attribute", "None"))
                /\ UNCHANGED <<status, requests, upd>>
           ELSE /\ status' = Overwrite(status, data)
                /\ requests' = Append(requests, [url |-> SET_PARAMETERS_URL, data |-> data])
                /\ upd' = [upd EXCEPT !.data = data]
                /\ stack' = SetTop(stack, [f EXCEPT !.pc = "L99"])
                /\ ret' = ret
        /\ UNCHANGED <<hardware_id, token, status_json, hardware_generation, warned, call>>

\* update_status, lines 99-114: the server's response arrives
UpdateStatusReceive ==
    \E r \in SetResponses :
        LET b == UpdateStatusBody(r)
            after == Finish(stack, b.out)
        IN  /\ At("update_status", "L99")
            /\ warned' = IF b.warn THEN warned \cup {"decode"} ELSE warned
            /\ stack' = after.stack
            /\ ret' = after.ret
            /\ upd' = [upd EXCEPT !.resp = r]
            /\ UNCHANGED <<device, requests, call>>

\* change_temperature, lines 174-175: get_status is called without a cached
\* status or when forced
ChangeTemperatureEntry ==
    LET f == Top(stack)
    IN  /\ At("change_temperature", "L174")
        /\ stack' = IF status = None \/ f.force_status_update
                    THEN Append(SetTop(stack, [f EXCEPT !.pc = "L175"]), GetFrame)
                    ELSE SetTop(stack, [f EXCEPT !.pc = "L176"])
        /\ UNCHANGED <<device, ret, requests, warned, call, upd>>

\* change_temperature, lines 176-178: the cached set-point plus `by` is the
\* temperature update_status is called with
ChangeTemperatureCompute ==
    LET f == Top(stack)
        current_set_point == IF status = None
                             THEN Exc("AttributeError", "object has no attribute", "None")
                             ELSE PyAdd(status.current_set_point, f.by)
    IN  /\ At("change_temperature", "L176")
        /\ IF IsExc(current_set_point)
           THEN /\ stack' = <<>>
                /\ ret' = Raised(current_set_point)
           ELSE /\ stack' = Append(SetTop(stack, [f EXCEPT !.pc = "L178"]),
                                   UpdateFrame(None, None, None, current_set_point))
                /\ ret' = ret
        /\ UNCHANGED <<device, requests, warned, call, upd>>

Next ==
    \/ get_status
    \/ update_status
    \/ power_off
    \/ power_on
    \/ set_cooling
    \/ set_heating
    \/ fan_speed_auto
    \/ fan_speed_low
    \/ fan_speed_medium
    \/ fan_speed_high
    \/ set_temp
    \/ change_temperature
    \/ decrease_temperature
    \/ increase_temperature
    \/ GetStatusSend
    \/ GetStatusReceive
    \/ UpdateStatusEntry
    \/ UpdateStatusFill
    \/ UpdateStatusSend
    \/ UpdateStatusReceive
    \/ ChangeTemperatureEntry
    \/ ChangeTemperatureCompute

Spec == Init /\ [][Next]_vars

Done == stack = <<>>

---------------------------------------------------------------------------
(* Vocabulary of the properties. *)

\* the requests update_status has sent since it was called, by endpoint
UpdateWindow == (upd.base + 1)..Len(requests)
UpdateGets == {i \in UpdateWindow : requests[i].url = GET_PARAMETERS_URL}
UpdateSets == {i \in UpdateWindow : requests[i].url = SET_PARAMETERS_URL}
AllSets == {i \in 1..Len(requests) : requests[i].url = SET_PARAMETERS_URL}

AllGiven == upd.called /\ None \notin {upd.given.power, upd.given.mode, upd.given.fan,
                                        upd.given.temp}

\* a decoded response that carries the server's error
IsErrorResponse(r) == r # Absent /\ r.decodes /\ HasKey(r.json, "error")

\* a decoded response get_status makes a Status of
IsStatusResponse(r) == r # Absent /\ r.decodes /\ r.json \in GetSuccessObjects

\* the number a str, int or float stands for, in tenths
NumberOf(v) == PyFloat(v).d

\* "ack" in every mix of upper and lower case
AckSpellings == {<<a, c, k>> : a \in {"a", "A"}, c \in {"c", "C"}, k \in {"k", "K"}}

IsResponseError(out) == out.kind = "raise" /\ out.val.t = "ResponseError"

---------------------------------------------------------------------------
(* The claims. *)

\* C1: a get_status call whose response is a JSON object with an `error` key
\* fails by raising ResponseError with the server's message; it does not
\* return a value.
C1_ErrorResponseRaises ==
    (call.fn = "get_status" /\ Done /\ IsErrorResponse(call.got))
        => /\ IsResponseError(ret)
           /\ ret.val.arg = call.got.json.error

\* C2: whenever the handle has a cached status, its current_set_point and
\* current_env_temperature are floats, never strings or integers.
C2_CachedTemperaturesAreFloats ==
    status # None => /\ status.current_set_point.t = "float"
                     /\ status.current_env_temperature.t = "float"

\* C3: update_status sends at most one update request; with all four
\* parameters given it sends no status-get request, and with a parameter
\* omitted it sends exactly one, before the update request.
C3_FetchOnlyWhenOmitted ==
    upd.called =>
        /\ Cardinality(UpdateSets) <= 1
        /\ AllGiven => UpdateGets = {}
        /\ (~AllGiven /\ (Done \/ UpdateSets # {})) =>
                /\ Cardinality(UpdateGets) = 1
                /\ \A i \in UpdateGets, j \in UpdateSets : i < j

\* C3 happens: update_status with a parameter omitted has finished after one
\* status-get request followed by one update request.
C3_Witness ==
    /\ Done /\ upd.called /\ ~AllGiven
    /\ Cardinality(UpdateGets) = 1 /\ Cardinality(UpdateSets) = 1

\* C4: when update_status with a parameter omitted builds its request after a
\* successful fetch, the one request carries token, hwid and the four
\* parameters: the fetched value for each omitted one, the caller's value for
\* each given one.
C4_OmittedFilledFromFetch ==
    (upd.data # None /\ ~AllGiven) =>
        LET d == upd.data
            g == upd.given
        IN  /\ IsStatusResponse(upd.fetched)
            /\ DOMAIN d = {"token", "hwid", "power", "mode", "fan", "setpoint"}
            /\ d.token = token /\ d.hwid = hardware_id
            /\ d.power = IF g.power = None THEN upd.fetched.json.power ELSE g.power
            /\ d.mode = IF g.mode = None THEN upd.fetched.json.mode ELSE g.mode
            /\ d.fan = IF g.fan = None THEN upd.fetched.json.fan ELSE g.fan
            /\ d.setpoint.t = "str"
            /\ NumberOf(d.setpoint) = IF g.temp = None
                                      THEN NumberOf(upd.fetched.json.setpoint)
                                      ELSE NumberOf(g.temp)
            /\ \A i \in AllSets : requests[i].data = d
            /\ Cardinality(AllSets) = 1

\* C4 happens: power and set-point were omitted and the mode given, and the
\* fetch returned a power and a set-point other than the ones cached before
\* the call.
C4_Witness ==
    /\ upd.data # None /\ call.status0 # None /\ upd.base = 0
    /\ upd.given.power = None /\ upd.given.temp = None /\ upd.given.mode # None
    /\ call.status0.power # upd.data.power
    /\ NumberOf(call.status0.current_set_point) # NumberOf(upd.data.setpoint)

C6_RequestedSetPoint ==
    (call.fn \in {"increase_temperature", "decrease_temperature"} /\ upd.data # None
     /\ ((call.status0 # None /\ ~call.force) \/ IsStatusResponse(call.got))) =>
        LET c == IF call.status0 # None /\ ~call.force
                 THEN NumberOf(call.status0.current_set_point)
                 ELSE NumberOf(call.got.json.setpoint)
            by == 10 * call.by.n
        IN  NumberOf(upd.data.setpoint) =
                IF call.fn = "increase_temperature" THEN c + by ELSE c - Abs(by)

\* C7: set_temp warns exactly when the value is outside [8, 32] and
\* suppress_warning is false, and calls update_status with the value as the
\* new temperature in every case.
C7_WarnsIffOutOfRangeAndNotSuppressed ==
    call.fn = "set_temp" =>
        /\ ("range" \in warned) <=>
                /\ \/ call.value.n < MinSetPoint
                   \/ call.value.n > MaxSetPoint
                /\ ~call.suppress
        /\ upd.called => upd.given = [power |-> None, mode |-> None, fan |-> None,
                                      temp |-> call.value]

\* C8: from the moment update_status has built its request, and after the call
\* has ended in any way, the cached power, mode, fan_speed and
\* current_set_point are the values of the request; no update request is sent
\* without them.
C8_CacheHoldsSubmittedValues ==
    /\ AllSets # {} => upd.data # None
    /\ upd.data # None =>
            /\ status # None
            /\ status.power = upd.data.power
            /\ status.mode = upd.data.mode
            /\ status.fan_speed = upd.data.fan
            /\ status.current_set_point = upd.data.setpoint

\* C8 happens: the update was answered with nak, update_status failed with
\* ResponseError, and the cache holds the submitted power, which is not the
\* one the handle had cached before the call.
C8_Witness ==
    /\ Done /\ IsResponseError(ret) /\ upd.data # None
    /\ upd.resp # Absent /\ upd.resp.decodes /\ HasKey(upd.resp.json, "status")
    /\ upd.given.power # None /\ call.status0 # None
    /\ status.power = upd.given.power
    /\ call.status0.power # upd.given.power

\* C9: update_status with all four parameters on a handle without a cached
\* status sends exactly one update request with the four values and the
\* credentials, and ends as the update response decides.
C9_AllGivenOnFreshHandleSends ==
    (call.fn = "update_status" /\ Done /\ AllGiven /\ call.status0 = None) =>
        /\ Cardinality(AllSets) = 1
        /\ \A i \in AllSets :
                requests[i].data = RequestData(upd.given.power, upd.given.mode,
                                               upd.given.fan, upd.given.temp)
        /\ upd.resp # Absent
        /\ ret = UpdateStatusBody(upd.resp).out

\* C10: when the fetch update_status performs is answered with an `error`
\* payload, the operation fails with ResponseError, no update request is sent,
\* and the cached status and hardware_generation stay as they were.
C10_FailedFetchFailsUpdate ==
    (upd.called /\ Done /\ IsErrorResponse(upd.fetched)) =>
        /\ IsResponseError(ret)
        /\ AllSets = {}
        /\ upd.base = 0 => /\ status = call.status0
                           /\ hardware_generation = call.hardware_generation0

===========================================================================
